---- MODULE Spec2Model ----
(***************************************************************************)
(* The Sapphire ParaTime runtime descriptor (runtime/src/lib.rs):          *)
(* build-time selection of chain id, state version and trust root, the     *)
(* key-manager trusted signer set, the genesis bundle of the seven         *)
(* modules and the state migration that copies the genesis parameters      *)
(* over the stored ones.                                                   *)
(*                                                                         *)
(* Representation.  Option<T>: None is <<>>, Some(x) is <<x>>.  A value of *)
(* option_env!/env! is the text the build saw.  Integer literals above     *)
(* 2^31-1 (u128/u64 amounts) are kept as their decimal digits in a string, *)
(* no arithmetic is done on them.  BTreeMap values are functions.          *)
(***************************************************************************)
EXTENDS Integers, Sequences, FiniteSets, TLC

None == <<>>
Some(x) == <<x>>

(***************************************************************************)
(* Bounds of the model.                                                    *)
(***************************************************************************)
\* length of a public key in bytes (32 in the program)
KeyLen == 2
\* largest threshold of the external key-manager policy
MaxThreshold == 2
\* largest state version recorded in the chain state
MaxVersion == 8
\* number of migrations run one after the other
MaxRuns == 2
\* largest number of signers of the external key-manager policy
MaxSigners == 2

(***************************************************************************)
(* Inputs of a build and of the environment of the runtime.                *)
(***************************************************************************)
\* what option_env!("OASIS_UNSAFE_USE_LOCALNET_CHAINID") can evaluate to
LocalnetEnvValues == {None, Some("1"), Some("")}
\* what env!("CARGO_PKG_VERSION_PRE") can evaluate to
VersionPreValues == {"", "alpha", "rc.1"}
\* what option_env!("OASIS_UNSAFE_SKIP_KM_POLICY") can evaluate to
SkipKmPolicyEnvValues == {None, Some("1"), Some("0"), Some("")}
\* the values of a byte the model distinguishes
ByteValues == {0, 255}
\* byte strings of the length of a key
KeyBytes == [1..KeyLen -> ByteValues]
\* keymanager-crate public keys: a tuple struct around the key bytes
KmPublicKeys == {<<"keymanager::PublicKey", b>> : b \in KeyBytes}
\* what keymanager::trusted_policy_signers() can return
KmTrustedSigners ==
    [signers : {S \in SUBSET KmPublicKeys : Cardinality(S) <= MaxSigners},
     threshold : 0..MaxThreshold]

VARIABLES
    OASIS_UNSAFE_USE_LOCALNET_CHAINID,  \* option_env! of the build
    CARGO_PKG_VERSION_PRE,              \* env! of the build
    OASIS_UNSAFE_SKIP_KM_POLICY,        \* option_env! of the build
    feature_debug_mock_sgx,             \* cfg!(feature = "debug-mock-sgx")
    target_env_sgx,                     \* cfg(target_env = "sgx")
    tps,                                \* value of keymanager::trusted_policy_signers()
    CHAIN_ID,                           \* module_evm::Config::CHAIN_ID
    STATE_VERSION,                      \* sdk::Runtime::STATE_VERSION
    ret_trusted_signers,                \* <<>> or <<value returned by the last call>>
    ret_consensus_trust_root,           \* <<>> or <<value returned by the last call>>
    store,                              \* stored parameters of each module
    store0,                             \* stored parameters at the start
    pre_store,                          \* stored parameters when the last migration began
    ctx_state_version,                  \* state version recorded in the chain state (_ctx)
    genesis,                            \* the bundle computed by the last genesis_state()
    calls,                              \* set_params calls begun by the last migrate_state
    outcome,                            \* "idle", "done" or "aborted": the last migrate_state
    panicked,                           \* index of the set_params call that panicked, or 0
    runs                                \* migrations completed one after the other

build == <<OASIS_UNSAFE_USE_LOCALNET_CHAINID, CARGO_PKG_VERSION_PRE,
           OASIS_UNSAFE_SKIP_KM_POLICY, feature_debug_mock_sgx, target_env_sgx,
           tps, CHAIN_ID, STATE_VERSION>>
resolved == <<ret_trusted_signers, ret_consensus_trust_root>>
migration == <<store, store0, pre_store, ctx_state_version, calls, outcome, panicked, runs>>
vars == <<build, resolved, migration, genesis>>

(***************************************************************************)
(* Environment resolution (const fns).                                     *)
(***************************************************************************)
is_testnet(version_pre) == ~(version_pre = "")

chain_id_marker_first(localnet_env, version_pre) ==
    IF is_testnet(version_pre) THEN 23295
    ELSE IF localnet_env # None THEN 23293
    ELSE 23294
chain_id(localnet_env, version_pre) ==
    IF localnet_env # None THEN 23293       \* 0x5afd, Localnet
    ELSE IF is_testnet(version_pre) THEN 23295  \* 0x5aff, Testnet
    ELSE 23294                              \* 0x5afe, Mainnet

state_version_swapped(version_pre) == IF is_testnet(version_pre) THEN 4 ELSE 7
state_version(version_pre) == IF is_testnet(version_pre) THEN 7 ELSE 4

(***************************************************************************)
(* Trust signer resolution.                                                *)
(***************************************************************************)
\* TrustedSigners::default()
TrustedSigners_default == [signers |-> {}, threshold |-> 0]

\* PublicKey(s.0): the runtime's tuple struct around the bytes of s
PublicKey(s) == <<"sdk::PublicKey", s[2]>>

trusted_signers_any_value(skip_env, debug_mock, policy) ==
    IF skip_env # None \/ debug_mock
    THEN Some(TrustedSigners_default)
    ELSE Some([signers |-> {PublicKey(s) : s \in policy.signers},
               threshold |-> policy.threshold])
trusted_signers(skip_env, debug_mock, policy) ==
    IF skip_env = Some("1") \/ debug_mock
    THEN Some(TrustedSigners_default)
    ELSE Some([signers |-> {PublicKey(s) : s \in policy.signers},
               threshold |-> policy.threshold])

TestnetTrustRoot ==
    [height |-> 21044750,
     hash |-> "defbded6ddb4b9fda7dc6ed9d4c2b9b977a711495d7ba97028c4ba0b362326f8",
     runtime_id |-> "000000000000000000000000000000000000000000000000a6d1e3ebf60dff6c",
     chain_context |-> "0b91b8e4e44b2003a7c5e23ddadb5e14ef5345c0ebcb3ddcae07fa2f244cab76"]
MainnetTrustRoot ==
    [height |-> 19327937,
     hash |-> "965b97464e8cb549926a0f39670025af9e0fdc271114cb1c9e7fdebb5516cd5f",
     runtime_id |-> "000000000000000000000000000000000000000000000000f80306c9858e7279",
     chain_context |-> "bb3d748def55bdfb797a2ac53ee6ee141e54cd2ab2dc2375f4a0703a178e6e55"]

\* the body of consensus_trust_root, compiled for target_env = "sgx" only
consensus_trust_root_swapped(version_pre) ==
    IF is_testnet(version_pre) THEN Some(MainnetTrustRoot) ELSE Some(TestnetTrustRoot)
consensus_trust_root(version_pre) ==
    IF is_testnet(version_pre) THEN Some(TestnetTrustRoot) ELSE Some(MainnetTrustRoot)

\* what a call of Runtime::consensus_trust_root() gives in a build: without
\* target_env = "sgx" the method is not compiled and there is no trust root
Runtime_consensus_trust_root(sgx, version_pre) ==
    IF sgx THEN consensus_trust_root(version_pre) ELSE None

(***************************************************************************)
(* Module registry and genesis.                                            *)
(***************************************************************************)
\* type Modules = ( ... ): the registry, in its order
Modules ==
    <<"core", "accounts", "consensus", "consensus_accounts", "rewards", "rofl", "evm">>

ModuleNames == {Modules[i] : i \in DOMAIN Modules}

core_Parameters ==
    [min_gas_price |-> [NATIVE |-> "100000000000"],
     dynamic_min_gas_price |->
        [enabled |-> TRUE,
         target_block_gas_usage_percentage |-> 50,
         min_price_max_change_denominator |-> 8],
     max_batch_gas |-> 15000000,
     max_tx_size |-> 128 * 1024,
     max_tx_signers |-> 2,
     max_multisig_signers |-> 8,
     gas_costs |->
        [tx_byte |-> 1,
         storage_byte |-> 15,
         auth_signature |-> 1000,
         auth_multisig_signer |-> 1000,
         callformat_x25519_deoxysii |-> 10000]]

accounts_Parameters ==
    [gas_costs |-> [tx_transfer |-> 1000],
     denomination_infos |-> [NATIVE |-> [decimals |-> 18]],
     rest |-> "Default::default()"]

consensus_Parameters ==
    [gas_costs |-> [round_root |-> 10000],
     consensus_denomination |-> "NATIVE",
     consensus_scaling_factor |-> 1000000000,
     min_delegate_amount |-> "100000000000"]

consensus_accounts_Parameters ==
    [gas_costs |->
        [tx_deposit |-> 60000,
         tx_withdraw |-> 60000,
         tx_delegate |-> 60000,
         tx_undelegate |-> 120000,
         store_receipt |-> 20000,
         take_receipt |-> 15000],
     disable_delegate |-> FALSE,
     disable_undelegate |-> FALSE,
     disable_deposit |-> FALSE,
     disable_withdraw |-> FALSE]

rewards_Parameters ==
    [schedule |->
        [steps |-> <<[until |-> 27500,
                      amount |-> <<"3000000000000000000", "NATIVE">>]>>],
     participation_threshold_numerator |-> 3,
     participation_threshold_denominator |-> 4]

rofl_Parameters == [all |-> "Default::default()"]

evm_Parameters == [gas_costs |-> [none |-> {}]]

\* fn genesis_state(): one Genesis record per module; `genesis_of` is the
\* module whose Genesis type the record has
genesis_state_consensus_swapped ==
    << [genesis_of |-> "core", parameters |-> core_Parameters],
       [genesis_of |-> "accounts", parameters |-> accounts_Parameters,
        rest |-> "Default::default()"],
       [genesis_of |-> "consensus_accounts", parameters |-> consensus_accounts_Parameters],
       [genesis_of |-> "consensus", parameters |-> consensus_Parameters],
       [genesis_of |-> "rewards", parameters |-> rewards_Parameters],
       [genesis_of |-> "rofl", parameters |-> rofl_Parameters, apps |-> <<>>],
       [genesis_of |-> "evm", parameters |-> evm_Parameters] >>
genesis_state ==
    << [genesis_of |-> "core", parameters |-> core_Parameters],
       [genesis_of |-> "accounts", parameters |-> accounts_Parameters,
        rest |-> "Default::default()"],
       [genesis_of |-> "consensus", parameters |-> consensus_Parameters],
       [genesis_of |-> "consensus_accounts", parameters |-> consensus_accounts_Parameters],
       [genesis_of |-> "rewards", parameters |-> rewards_Parameters],
       [genesis_of |-> "rofl", parameters |-> rofl_Parameters, apps |-> <<>>],
       [genesis_of |-> "evm", parameters |-> evm_Parameters] >>

(***************************************************************************)
(* State migration.                                                        *)
(***************************************************************************)
\* stored parameters that differ from the genesis ones (evm's Parameters
\* type has one value only)
OverrideParameters ==
    [core |-> [core_Parameters EXCEPT !.max_batch_gas = 30000000],
     accounts |-> [accounts_Parameters EXCEPT !.gas_costs.tx_transfer = 2000],
     consensus |-> [consensus_Parameters EXCEPT !.gas_costs.round_root = 20000],
     consensus_accounts |-> [consensus_accounts_Parameters EXCEPT !.disable_delegate = TRUE],
     rewards |-> [rewards_Parameters EXCEPT !.participation_threshold_numerator = 2],
     rofl |-> [all |-> "overridden"],
     evm |-> evm_Parameters]

\* the stored parameters of the modules before a migration
StartStores ==
    {st \in [ModuleNames -> {None} \cup {Some(OverrideParameters[m]) : m \in ModuleNames}] :
        \A m \in ModuleNames : st[m] \in {None, Some(OverrideParameters[m])}}

\* <module>::set_params(params): overwrites the module's stored parameters
set_params(st, module, params) == [st EXCEPT ![module] = Some(params)]

\* the set_params calls of migrate_state, in program order
migrate_calls_rewards_early(g) ==
    << [module |-> "core", params |-> g[1].parameters],
       [module |-> "accounts", params |-> g[2].parameters],
       [module |-> "rewards", params |-> g[5].parameters],
       [module |-> "consensus", params |-> g[3].parameters],
       [module |-> "consensus_accounts", params |-> g[4].parameters],
       [module |-> "rofl", params |-> g[6].parameters],
       [module |-> "evm", params |-> g[7].parameters] >>
migrate_calls_one_at_a_time(g) ==
    LET all == << [module |-> "core", params |-> g[1].parameters],
                  [module |-> "accounts", params |-> g[2].parameters],
                  [module |-> "consensus", params |-> g[3].parameters],
                  [module |-> "consensus_accounts", params |-> g[4].parameters],
                  [module |-> "rewards", params |-> g[5].parameters],
                  [module |-> "rofl", params |-> g[6].parameters],
                  [module |-> "evm", params |-> g[7].parameters] >>
        stale == {i \in DOMAIN all : store[all[i].module] # Some(all[i].params)}
    IN  IF stale = {} THEN << >>
        ELSE << all[CHOOSE i \in stale : \A j \in stale : i <= j] >>
migrate_calls(g) ==
    << [module |-> "core", params |-> g[1].parameters],
       [module |-> "accounts", params |-> g[2].parameters],
       [module |-> "consensus", params |-> g[3].parameters],
       [module |-> "consensus_accounts", params |-> g[4].parameters],
       [module |-> "rewards", params |-> g[5].parameters],
       [module |-> "rofl", params |-> g[6].parameters],
       [module |-> "evm", params |-> g[7].parameters] >>

\* the calls that return when call number `fail` panics (0, or a number
\* beyond the calls made: none does): the calls are made one after the other
\* and a panic is not caught, so the calls before it
executed_skipping_failed(cs, fail) ==
    IF fail \notin 1..Len(cs) THEN cs
    ELSE SubSeq(cs, 1, fail - 1) \o SubSeq(cs, fail + 1, Len(cs))
executed(cs, fail) ==
    IF fail \notin 1..Len(cs) THEN cs ELSE SubSeq(cs, 1, fail - 1)

\* the calls begun, the panicking one included
begun(cs, fail) ==
    IF fail \notin 1..Len(cs) THEN cs ELSE SubSeq(cs, 1, fail)

RECURSIVE apply_calls(_, _)
apply_calls(st, cs) ==
    IF cs = << >> THEN st
    ELSE apply_calls(set_params(st, Head(cs).module, Head(cs).params), Tail(cs))

(***************************************************************************)
(* Initial states.                                                         *)
(***************************************************************************)
InitBuild(L, P, S, D, X, T) ==
    /\ OASIS_UNSAFE_USE_LOCALNET_CHAINID \in L
    /\ CARGO_PKG_VERSION_PRE \in P
    /\ OASIS_UNSAFE_SKIP_KM_POLICY \in S
    /\ feature_debug_mock_sgx \in D
    /\ target_env_sgx \in X
    /\ tps \in T
    /\ CHAIN_ID = chain_id(OASIS_UNSAFE_USE_LOCALNET_CHAINID, CARGO_PKG_VERSION_PRE)
    /\ STATE_VERSION = state_version(CARGO_PKG_VERSION_PRE)
    /\ ret_trusted_signers = << >>
    /\ ret_consensus_trust_root = << >>

InitMigration(S, V) ==
    /\ store \in S
    /\ store0 = store
    /\ pre_store = store
    /\ ctx_state_version \in V
    /\ genesis = None
    /\ calls = << >>
    /\ outcome = "idle"
    /\ panicked = 0
    /\ runs = 0

\* a production policy of the key manager, for the runs about migration
SomePolicy == [signers |-> {<<"keymanager::PublicKey", [i \in 1..KeyLen |-> 255]>>},
               threshold |-> 1]

\* every build and every key-manager policy; nothing stored yet
InitEnv ==
    /\ InitBuild(LocalnetEnvValues, VersionPreValues, SkipKmPolicyEnvValues,
                 BOOLEAN, BOOLEAN, KmTrustedSigners)
    /\ InitMigration({[m \in ModuleNames |-> None]}, {0})

\* every tier, every stored state and every recorded state version
Init ==
    /\ InitBuild({None, Some("1")}, {"", "alpha"}, {None}, {FALSE}, {TRUE}, {SomePolicy})
    /\ InitMigration(StartStores, 0..MaxVersion)

(***************************************************************************)
(* Operations.                                                             *)
(***************************************************************************)
\* the host asks for the trusted signers
call_trusted_signers ==
    /\ ret_trusted_signers' =
          Some(trusted_signers(OASIS_UNSAFE_SKIP_KM_POLICY, feature_debug_mock_sgx, tps))
    /\ UNCHANGED <<build, ret_consensus_trust_root, migration, genesis>>

\* the host asks for the consensus trust root
call_consensus_trust_root ==
    /\ ret_consensus_trust_root' =
          Some(Runtime_consensus_trust_root(target_env_sgx, CARGO_PKG_VERSION_PRE))
    /\ UNCHANGED <<build, ret_trusted_signers, migration, genesis>>

\* the host asks for the genesis bundle
call_genesis_state ==
    /\ outcome # "aborted"
    /\ genesis' = Some(genesis_state)
    /\ UNCHANGED <<build, resolved, migration>>

\* the host runs the migration; call number `fail` of set_params panics
\* (0: none).  A panic ends the execution: nothing runs after it.
migrate_state(fail) ==
    /\ outcome # "aborted"
    /\ runs < MaxRuns
    /\ LET g == genesis_state
           cs == migrate_calls(g)
       IN  /\ genesis' = Some(g)
           /\ calls' = begun(cs, fail)
           /\ store' = apply_calls(store, executed(cs, fail))
    /\ pre_store' = store
    /\ LET failed == fail \in 1..Len(migrate_calls(genesis_state))
       IN  /\ panicked' = IF failed THEN fail ELSE 0
           /\ outcome' = IF failed THEN "aborted" ELSE "done"
           /\ runs' = IF failed THEN runs ELSE runs + 1
    /\ UNCHANGED <<build, resolved, store0, ctx_state_version>>

NextEnv ==
    \/ call_trusted_signers
    \/ call_consensus_trust_root

Next ==
    \/ call_genesis_state
    \/ \E fail \in 0..Len(Modules) : migrate_state(fail)

SpecEnv == InitEnv /\ [][NextEnv]_vars
Spec == Init /\ [][Next]_vars

(***************************************************************************)
(* The environment tier of a build, as the specification resolves it.      *)
(***************************************************************************)
Tier(localnet_env, version_pre) ==
    IF localnet_env # None THEN "Localnet"
    ELSE IF version_pre # "" THEN "Testnet"
    ELSE "Mainnet"

BuildTier == Tier(OASIS_UNSAFE_USE_LOCALNET_CHAINID, CARGO_PKG_VERSION_PRE)

(***************************************************************************)
(* Properties.                                                             *)
(***************************************************************************)

\* C1: the chain id is 0x5afd when the localnet override flag is set,
\* whatever the pre-release marker; otherwise 0x5aff when the marker is
\* non-empty; otherwise 0x5afe.  The EVM module's CHAIN_ID is that value.
C1_ChainIdByPriority ==
    /\ BuildTier = "Localnet" => CHAIN_ID = 23293
    /\ BuildTier = "Testnet" => CHAIN_ID = 23295
    /\ BuildTier = "Mainnet" => CHAIN_ID = 23294
    /\ CHAIN_ID \in {23293, 23294, 23295}

\* a Localnet build with a pre-release marker
C1_Witness ==
    /\ OASIS_UNSAFE_USE_LOCALNET_CHAINID # None
    /\ CARGO_PKG_VERSION_PRE # ""
    /\ CHAIN_ID = 23293

\* C2 as stated: the state version is a function of the tier alone, every
\* build of the same tier has the state version of this one; Mainnet has 4
\* and Testnet 7.
C2_StateVersionByTier ==
    /\ BuildTier = "Mainnet" => STATE_VERSION = 4
    /\ BuildTier = "Testnet" => STATE_VERSION = 7
    /\ \A l \in LocalnetEnvValues, p \in VersionPreValues :
          Tier(l, p) = BuildTier => state_version(p) = STATE_VERSION

\* C2 amended: the state version is a function of the pre-release marker
\* alone, 7 when it is non-empty and 4 when it is empty, whatever the
\* localnet override flag; so 4 on Mainnet, 7 on Testnet, and 4 or 7 on
\* Localnet.
C2_StateVersionByMarker ==
    /\ STATE_VERSION = IF CARGO_PKG_VERSION_PRE = "" THEN 4 ELSE 7
    /\ BuildTier = "Mainnet" => STATE_VERSION = 4
    /\ BuildTier = "Testnet" => STATE_VERSION = 7
    /\ BuildTier = "Localnet" => STATE_VERSION \in {4, 7}

\* a Localnet build with a pre-release marker has state version 7
C2_Witness ==
    /\ BuildTier = "Localnet"
    /\ CARGO_PKG_VERSION_PRE # ""
    /\ STATE_VERSION = 7

\* C3 as stated: in an enclave build the trust root is the Mainnet record
\* (height 19327937) on Mainnet and the Testnet record (height 21044750) on
\* Testnet; it is None on Localnet and in a build that is no enclave build.
C3_TrustRootByTier ==
    ret_consensus_trust_root # << >> =>
        LET r == ret_consensus_trust_root[1]
        IN  IF target_env_sgx /\ BuildTier = "Mainnet"
            THEN r = Some(MainnetTrustRoot) /\ r[1].height = 19327937
            ELSE IF target_env_sgx /\ BuildTier = "Testnet"
            THEN r = Some(TestnetTrustRoot) /\ r[1].height = 21044750
            ELSE r = None

\* C3 amended: in an enclave build the trust root is selected by the
\* pre-release marker alone, the Testnet record (height 21044750) when it is
\* non-empty and the Mainnet record (height 19327937) when it is empty, also
\* when the localnet override flag is set; it is None exactly when the build
\* is no enclave build.
C3_TrustRootByMarker ==
    ret_consensus_trust_root # << >> =>
        LET r == ret_consensus_trust_root[1]
        IN  IF ~target_env_sgx THEN r = None
            ELSE IF CARGO_PKG_VERSION_PRE # ""
            THEN r = Some(TestnetTrustRoot) /\ r[1].height = 21044750
            ELSE r = Some(MainnetTrustRoot) /\ r[1].height = 19327937

\* an enclave build for Localnet has been asked and gave a trust root
C3_Witness ==
    /\ ret_consensus_trust_root # << >>
    /\ target_env_sgx
    /\ BuildTier = "Localnet"
    /\ ret_consensus_trust_root[1] # None

\* the result carries the policy's signers, byte for byte, and its threshold
CarriesPolicy(r, policy) ==
    /\ r.threshold = policy.threshold
    /\ \A k \in r.signers : k[1] = "sdk::PublicKey"
    /\ {k[2] : k \in r.signers} = {k[2] : k \in policy.signers}
    /\ Cardinality(r.signers) = Cardinality(policy.signers)

\* C4 as stated: whenever the skip-key-manager-policy flag is set, or the
\* build is a debug/mock build, the result is the empty signer set with
\* threshold 0; otherwise it carries the external policy's signers and
\* threshold.  It is never None.
C4_SignersByFlagSet ==
    ret_trusted_signers # << >> =>
        LET r == ret_trusted_signers[1]
        IN  /\ r # None
            /\ IF OASIS_UNSAFE_SKIP_KM_POLICY # None \/ feature_debug_mock_sgx
               THEN r[1] = [signers |-> {}, threshold |-> 0]
               ELSE CarriesPolicy(r[1], tps)

\* C4 amended: whenever the skip-key-manager-policy flag is set to "1", or
\* the build is a debug/mock build, the result is the empty signer set with
\* threshold 0; in every other case (the flag unset or set to another value)
\* it carries the external policy's signers and threshold.  It is never None.
C4_SignersByFlagOne ==
    ret_trusted_signers # << >> =>
        LET r == ret_trusted_signers[1]
        IN  /\ r # None
            /\ IF OASIS_UNSAFE_SKIP_KM_POLICY = Some("1") \/ feature_debug_mock_sgx
               THEN r[1] = [signers |-> {}, threshold |-> 0]
               ELSE CarriesPolicy(r[1], tps)

\* the flag set to something else than "1": the policy's two signers come back
C4_Witness ==
    /\ ret_trusted_signers # << >>
    /\ OASIS_UNSAFE_SKIP_KM_POLICY = Some("0")
    /\ ~feature_debug_mock_sgx
    /\ Cardinality(tps.signers) = 2
    /\ Cardinality(ret_trusted_signers[1][1].signers) = 2

\* C5: in a production (Mainnet) build trusted_signers does not give the
\* empty signer set with threshold 0 when the key-manager policy has
\* signers, even with the skip flag or the debug/mock flag set.
C5_NoPermissiveInProduction ==
    (/\ ret_trusted_signers # << >>
     /\ BuildTier = "Mainnet"
     /\ tps.signers # {})
        => ret_trusted_signers[1] # Some([signers |-> {}, threshold |-> 0])

\* C6: a second migration run right after a completed one leaves every
\* module's stored parameters as the first one left them.
C6_MigrateIdempotent ==
    (outcome = "done" /\ runs >= 2) => store = pre_store

\* two migrations have run from a state the first one changed
C6_Witness ==
    /\ outcome = "done"
    /\ runs = 2
    /\ store0 # store

\* C7: a migration invoked with the compiled state version below the
\* recorded one is refused: no module's stored parameters are changed.
C7_RefusesDowngrade ==
    (outcome # "idle" /\ STATE_VERSION < ctx_state_version) => store = pre_store

\* C8: the genesis bundle has one record per module of the registry, seven,
\* and the record at each index is the Genesis of the module at that index:
\* core, accounts, consensus, consensus_accounts, rewards, rofl, evm.
C8_GenesisOrder ==
    genesis # None =>
        /\ Len(genesis[1]) = Len(Modules)
        /\ Len(genesis[1]) = 7
        /\ \A i \in 1..Len(Modules) : genesis[1][i].genesis_of = Modules[i]
        /\ [i \in 1..7 |-> genesis[1][i].genesis_of] =
              <<"core", "accounts", "consensus", "consensus_accounts",
                "rewards", "rofl", "evm">>

\* the host has asked a Localnet build for the genesis bundle
C8_Witness ==
    /\ genesis # None
    /\ outcome = "idle"
    /\ BuildTier = "Localnet"

\* C9: a completed migration has recomputed the genesis bundle and called
\* set_params once per module, in registry order, call i on module i with
\* the parameters of record i; every module then stores the genesis
\* parameters, whatever it stored before.
C9_MigrateInOrder ==
    outcome = "done" =>
        /\ genesis = Some(genesis_state)
        /\ Len(calls) = Len(Modules)
        /\ \A i \in 1..Len(Modules) :
              /\ calls[i].module = Modules[i]
              /\ calls[i].params = genesis[1][i].parameters
              /\ store[Modules[i]] = Some(genesis[1][i].parameters)

\* a migration has completed over overridden parameters of a module
C9_Witness ==
    /\ outcome = "done"
    /\ runs = 1
    /\ pre_store["core"] = Some(OverrideParameters["core"])
    /\ pre_store["rofl"] = None
    /\ store["core"] = Some(core_Parameters)

====
